---- MODULE Spec2Model ----
(***************************************************************************)
(* The waypoint path manager of chp11/path_manager.py as a state machine.  *)
(*                                                                         *)
(* State: the fields of one path_manager object, the waypoint message the  *)
(* planner hands to it (update writes its flag_waypoints_changed), and a   *)
(* record `last` of what the most recent call to update did.               *)
(*                                                                         *)
(* Numbers.  Waypoints and vehicle positions are integer NED triples.  A   *)
(* unit vector v/|v| is kept exactly, as the primitive integer vector of   *)
(* its direction; 0/0 is the NaN vector numpy produces.  The half-space    *)
(* test is decided in exact arithmetic on these.                           *)
(*                                                                         *)
(* halfspace_n, halfspace_r (lines 20-21) are overwritten at lines 58-59   *)
(* before their only read at line 101, and manager_state (line 23) is      *)
(* never read or written again: they are locals of line_manager here.      *)
(***************************************************************************)
EXTENDS Integers, Sequences, FiniteSets, TLC

VARIABLES wp, ptr_previous, ptr_current, ptr_next,
          flag_need_new_waypoints, num_waypoints, path, last

vars == <<wp, ptr_previous, ptr_current, ptr_next,
          flag_need_new_waypoints, num_waypoints, path, last>>

----------------------------------------------------------------------------
(* Bounds *)

\* side of the square the routes are laid on; vehicle positions are the
\* grid points 0..MaxCoord in north and east
MaxCoord == 2

----------------------------------------------------------------------------
(* Vectors *)

Zero == <<0, 0, 0>>

Sub(a, b) == <<a[1] - b[1], a[2] - b[2], a[3] - b[3]>>

Neg(a) == <<0 - a[1], 0 - a[2], 0 - a[3]>>

Dot(a, b) == a[1] * b[1] + a[2] * b[2] + a[3] * b[3]

Abs(x) == IF x < 0 THEN 0 - x ELSE x

RECURSIVE Gcd(_, _)
Gcd(a, b) == IF b = 0 THEN a ELSE Gcd(b, a % b)

\* the primitive integer vector with the direction of v (v # Zero)
Prim(v) ==
    LET g == Gcd(Gcd(Abs(v[1]), Abs(v[2])), Abs(v[3]))
    IN  <<v[1] \div g, v[2] \div g, v[3] \div g>>

NaNVec == [nan |-> TRUE, v |-> Zero]

\* v / np.linalg.norm(v): the unit vector v/|v|, kept as its direction;
\* a zero vector divides 0 by 0 and numpy returns NaN (no exception)
Normalize(v) ==
    IF v = Zero THEN NaNVec ELSE [nan |-> FALSE, v |-> Prim(v)]

\* n / np.linalg.norm(n) for n = q_prev + qi, the sum of two unit vectors.
\* NaN if either is NaN or if they cancel; otherwise a positive multiple of
\* a/|a| + b/|b|, kept as the pair (a, b).
HalfspaceNormal(q_prev, qi) ==
    IF q_prev.nan \/ qi.nan \/ q_prev.v = Neg(qi.v)
    THEN [nan |-> TRUE, a |-> Zero, b |-> Zero]
    ELSE [nan |-> FALSE, a |-> q_prev.v, b |-> qi.v]

\* the sign test x/sqrt(A) + y/sqrt(B) >= 0 for integers x, y and A, B > 0
SumNonNeg(x, A, y, B) ==
    IF x >= 0 /\ y >= 0 THEN TRUE
    ELSE IF x < 0 /\ y < 0 THEN FALSE
    ELSE IF x >= 0 THEN x * x * B >= y * y * A
    ELSE y * y * A >= x * x * B

\* (pos - halfspace_r).T @ halfspace_n >= 0; a comparison with NaN is False
inHalfSpace(pos, halfspace_r, halfspace_n) ==
    IF halfspace_n.nan THEN FALSE
    ELSE LET d == Sub(pos, halfspace_r)
         IN  SumNonNeg(Dot(d, halfspace_n.a), Dot(halfspace_n.a, halfspace_n.a),
                       Dot(d, halfspace_n.b), Dot(halfspace_n.b, halfspace_n.b))

----------------------------------------------------------------------------
(* Inputs *)

Types == {"straight_line", "fillet", "dubins", "other"}

\* the vehicle state message: north, east, altitude
States == [pn : 0..MaxCoord, pe : 0..MaxCoord, h : {0, 1}]

Corner(x, y) == <<x * MaxCoord, y * MaxCoord, 0>>

Square == <<Corner(0, 0), Corner(1, 0), Corner(1, 1), Corner(0, 1)>>

\* a point halfway along the first side of the square
Midway == <<MaxCoord \div 2, 0, 0>>

\* the waypoint arrays the planner supplies: the ned columns, and how many of
\* them are waypoints (columns past num_waypoints are padding).  Every
\* 3-waypoint route over two corners (U-turns, coincident waypoints), routes
\* that turn, run straight on, or climb after the first leg (down coordinate
\* -1), and lists that are too short, with and without padding.
Routes ==
    { [ned |-> s, num |-> 3] : s \in [1..3 -> {Corner(0, 0), Corner(1, 0)}] }
    \cup
    { [ned |-> Square, num |-> 4],
      [ned |-> Square, num |-> 3],
      [ned |-> SubSeq(Square, 1, 3), num |-> 3],
      [ned |-> <<Corner(0, 0), Corner(1, 1), Corner(1, 0)>>, num |-> 3],
      [ned |-> <<Corner(0, 0), Midway, Corner(1, 0), Corner(1, 1)>>, num |-> 4],
      [ned |-> <<Corner(0, 0), Midway, <<MaxCoord \div 2, 0, 0 - 1>>>>, num |-> 3],
      [ned |-> SubSeq(Square, 1, 3), num |-> 2],
      [ned |-> SubSeq(Square, 1, 2), num |-> 2],
      [ned |-> SubSeq(Square, 1, 1), num |-> 1],
      [ned |-> << >>, num |-> 0] }

\* commanded airspeed of column i (0-based): distinct per column
Airspeed(i) == 20 + i

WaypointMsg(r, t, f) ==
    [type |-> t, flag_waypoints_changed |-> f, num_waypoints |-> r.num,
     ned |-> r.ned, airspeed |-> [i \in 1..Len(r.ned) |-> Airspeed(i - 1)]]

----------------------------------------------------------------------------
(* path_manager *)

\* msg_path() as constructed: its fields are not set by path_manager
DefaultPath ==
    [flag |-> "unset", airspeed |-> 0, line_origin |-> Zero,
     line_direction |-> NaNVec, flag_path_changed |-> FALSE]

NoCall ==
    [op |-> "none", outcome |-> "none", state |-> [pn |-> 0, pe |-> 0, h |-> 0],
     flagIn |-> FALSE, ptrIn |-> [previous |-> 0, current |-> 0, next |-> 0],
     needIn |-> FALSE, ptr |-> [previous |-> 0, current |-> 0, next |-> 0],
     num |-> 0, need |-> FALSE, tested |-> FALSE, crossed |-> FALSE,
     maxRead |-> 0 - 1]

\* a reset that counts the columns from 1
initialize_pointers_from_one == [previous |-> 1, current |-> 2, next |-> 3]

initialize_pointers == [previous |-> 0, current |-> 1, next |-> 2]

\* the guard off by one: advances once more at the last waypoint
increment_pointers_off_by_one(ptr, num, need) ==
    IF ptr.current <= num - 1
    THEN [ptr |-> [previous |-> ptr.previous + 1, current |-> ptr.current + 1,
                   next |-> ptr.next + 1],
          need |-> need]
    ELSE [ptr |-> ptr, need |-> TRUE]

\* the request for new waypoints raised on every crossing
increment_pointers_always_request(ptr, num, need) ==
    IF ptr.current < num - 1
    THEN [ptr |-> [previous |-> ptr.previous + 1, current |-> ptr.current + 1,
                   next |-> ptr.next + 1],
          need |-> TRUE]
    ELSE [ptr |-> ptr, need |-> TRUE]

increment_pointers(ptr, num, need) ==
    IF ptr.current < num - 1
    THEN [ptr |-> [previous |-> ptr.previous + 1, current |-> ptr.current + 1,
                   next |-> ptr.next + 1],
          need |-> need]
    ELSE [ptr |-> ptr, need |-> TRUE]

\* waypoints.ned[:, i] for a 0-based column i
Column(w, i) == w.ned[i + 1]

\* line_manager(waypoints, state) with the manager's pointers, num_waypoints,
\* need flag and path as they are when it is entered.  Reading a column the
\* array does not have raises IndexError at line 46, before anything is
\* written.
line_manager(w, state, ptr, num, need, pth) ==
    IF ptr.next >= Len(w.ned)
    THEN [raised |-> TRUE, ptr |-> ptr, need |-> need, path |-> pth,
          crossed |-> FALSE, maxRead |-> ptr.next]
    ELSE
      LET qi     == Normalize(Sub(Column(w, ptr.next), Column(w, ptr.current)))
          q_prev == Normalize(Sub(Column(w, ptr.current), Column(w, ptr.previous)))
          halfspace_n == HalfspaceNormal(q_prev, qi)
          halfspace_r == Column(w, ptr.current)
          p       == <<state.pn, state.pe, 0 - state.h>>
          crossed == inHalfSpace(p, halfspace_r, halfspace_n)
          inc     == increment_pointers(ptr, num, need)
      IN  IF crossed
          THEN [raised |-> FALSE, ptr |-> inc.ptr, need |-> inc.need,
                path |-> [flag |-> "line",
                          airspeed |-> w.airspeed[ptr.next + 1],
                          line_origin |-> Column(w, ptr.current),
                          line_direction |-> qi,
                          flag_path_changed |-> TRUE],
                crossed |-> TRUE, maxRead |-> ptr.next]
          ELSE [raised |-> FALSE, ptr |-> ptr, need |-> need,
                path |-> [flag |-> "line",
                          airspeed |-> w.airspeed[ptr.current + 1],
                          line_origin |-> Column(w, ptr.previous),
                          line_direction |-> q_prev,
                          flag_path_changed |-> FALSE],
                crossed |-> FALSE, maxRead |-> ptr.next]

\* fillet_manager, dubins_manager: stubs that change nothing
fillet_manager(ptr, need, pth) ==
    [raised |-> FALSE, ptr |-> ptr, need |-> need, path |-> pth,
     crossed |-> FALSE, maxRead |-> 0 - 1]

dubins_manager(ptr, need, pth) ==
    [raised |-> FALSE, ptr |-> ptr, need |-> need, path |-> pth,
     crossed |-> FALSE, maxRead |-> 0 - 1]

----------------------------------------------------------------------------
(* Actions *)

Init ==
    /\ \E r \in Routes, t \in Types, f \in BOOLEAN : wp = WaypointMsg(r, t, f)
    /\ ptr_previous = 0
    /\ ptr_current = 1
    /\ ptr_next = 2
    /\ flag_need_new_waypoints = TRUE
    /\ num_waypoints = 0
    /\ path = DefaultPath
    /\ last = NoCall

\* the planner replaces the waypoints and raises the changed flag
ReplaceWaypoints ==
    /\ \E r \in Routes, t \in Types : wp' = WaypointMsg(r, t, TRUE)
    /\ last' = NoCall
    /\ UNCHANGED <<ptr_previous, ptr_current, ptr_next,
                   flag_need_new_waypoints, num_waypoints, path>>

\* update(waypoints, radius, state)
update(state) ==
    LET changed == wp.flag_waypoints_changed
        num1  == IF changed THEN wp.num_waypoints ELSE num_waypoints
        need1 == IF changed THEN FALSE ELSE flag_need_new_waypoints
        ptr1  == IF changed THEN initialize_pointers
                 ELSE [previous |-> ptr_previous, current |-> ptr_current,
                       next |-> ptr_next]
        res   == CASE wp.type = "straight_line" ->
                        line_manager(wp, state, ptr1, num1, need1, path)
                   [] wp.type = "fillet" -> fillet_manager(ptr1, need1, path)
                   [] wp.type = "dubins" -> dubins_manager(ptr1, need1, path)
                   [] OTHER -> [raised |-> FALSE, ptr |-> ptr1, need |-> need1,
                                path |-> path, crossed |-> FALSE,
                                maxRead |-> 0 - 1]
    IN  /\ wp' = [wp EXCEPT !.flag_waypoints_changed = FALSE]
        /\ num_waypoints' = num1
        /\ ptr_previous' = res.ptr.previous
        /\ ptr_current' = res.ptr.current
        /\ ptr_next' = res.ptr.next
        /\ flag_need_new_waypoints' = res.need
        /\ path' = res.path
        /\ last' = [op |-> "update",
                    outcome |-> IF res.raised THEN "IndexError" ELSE "returned",
                    state |-> state, flagIn |-> changed,
                    ptrIn |-> [previous |-> ptr_previous,
                               current |-> ptr_current, next |-> ptr_next],
                    needIn |-> flag_need_new_waypoints, ptr |-> ptr1,
                    num |-> num1, need |-> need1,
                    tested |-> (wp.type = "straight_line" /\ ~res.raised),
                    crossed |-> res.crossed, maxRead |-> res.maxRead]

Update == \E state \in States : update(state)

Next == ReplaceWaypoints \/ Update

Spec == Init /\ [][Next]_vars

----------------------------------------------------------------------------
(* Properties *)

Called == last.op = "update"

StraightCall == Called /\ wp.type = "straight_line"

Pointers == [previous |-> ptr_previous, current |-> ptr_current,
             next |-> ptr_next]

Advanced(ptr) == [previous |-> ptr.previous + 1, current |-> ptr.current + 1,
                  next |-> ptr.next + 1]

\* the vehicle position of the last call, north-east-down
LastPosition == <<last.state.pn, last.state.pe, 0 - last.state.h>>

\* C1: with num_waypoints >= 3 the pointers always satisfy
\* 0 <= ptr_previous < ptr_current < ptr_next <= num_waypoints - 1.
C1_PointerOrder ==
    num_waypoints >= 3 =>
        /\ 0 <= ptr_previous
        /\ ptr_previous < ptr_current
        /\ ptr_current < ptr_next
        /\ ptr_next <= num_waypoints - 1

C3_EndOfList ==
    (StraightCall /\ last.num >= 3) =>
        /\ last.maxRead <= last.num - 1
        /\ (last.crossed /\ last.ptr.current = last.num - 1) =>
               (flag_need_new_waypoints /\ Pointers = last.ptr)

\* C4: an update that finds the list-changed flag set has the pointers at
\* (0,1,2), num_waypoints taken from the list and the need-new-waypoints flag
\* cleared when it dispatches to the switching test, and leaves the
\* list-changed flag cleared; an update that finds it clear lowers no pointer.
C4_ListChanged ==
    [][last'.op = "update" =>
         IF wp.flag_waypoints_changed
         THEN /\ last'.ptr = [previous |-> 0, current |-> 1, next |-> 2]
              /\ last'.num = wp.num_waypoints
              /\ num_waypoints' = wp.num_waypoints
              /\ last'.need = FALSE
              /\ wp'.flag_waypoints_changed = FALSE
         ELSE /\ ptr_previous' >= ptr_previous
              /\ ptr_current' >= ptr_current
              /\ ptr_next' >= ptr_next
              /\ wp'.flag_waypoints_changed = FALSE]_vars

\* a list-changed update that pulled advanced pointers and a raised flag back
\* before its own switching test ran
C4_Witness ==
    /\ Called /\ last.flagIn /\ last.tested
    /\ last.ptrIn.previous > 0
    /\ last.needIn
    /\ last.ptr.previous = 0
    /\ ~last.need

\* C5: a straight-line update (on a list of at least 3 waypoints) returns a
\* segment: if the position is in the half-space at waypoint[cur] with normal
\* normalize(q_prev + q_next) (0 counts), origin waypoint[cur], direction
\* q_next, airspeed of waypoint[next], changed, and the pointers one further
\* when cur < num_waypoints - 1; otherwise origin waypoint[prev], direction
\* q_prev, airspeed of waypoint[cur], not changed, pointers and need flag as
\* they were.  On the square, halfway along the first side is not changed
\* along (1,0,0); at the second corner is changed along (0,1,0) with pointers
\* (1,2,3).
C5_Segment ==
    (StraightCall /\ wp.num_waypoints >= 3 /\ last.num >= 3) =>
        /\ last.outcome = "returned"
        /\ LET pr == last.ptr.previous
               cu == last.ptr.current
               nx == last.ptr.next
               q_prev == Normalize(Sub(Column(wp, cu), Column(wp, pr)))
               q_next == Normalize(Sub(Column(wp, nx), Column(wp, cu)))
               crossed == inHalfSpace(LastPosition, Column(wp, cu),
                                      HalfspaceNormal(q_prev, q_next))
           IN  IF crossed
               THEN /\ path.line_origin = Column(wp, cu)
                    /\ path.line_direction = q_next
                    /\ path.airspeed = wp.airspeed[nx + 1]
                    /\ path.flag_path_changed
                    /\ cu < last.num - 1 => Pointers = Advanced(last.ptr)
               ELSE /\ path.line_origin = Column(wp, pr)
                    /\ path.line_direction = q_prev
                    /\ path.airspeed = wp.airspeed[cu + 1]
                    /\ ~path.flag_path_changed
                    /\ Pointers = last.ptr
                    /\ flag_need_new_waypoints = last.need
        /\ (wp.ned = Square /\ last.num = 4 /\ last.ptr.previous = 0) =>
              /\ LastPosition = Midway =>
                    /\ ~path.flag_path_changed
                    /\ path.line_direction = Normalize(<<1, 0, 0>>)
              /\ LastPosition = Corner(1, 0) =>
                    /\ path.flag_path_changed
                    /\ path.line_direction = Normalize(<<0, 1, 0>>)
                    /\ Pointers = [previous |-> 1, current |-> 2, next |-> 3]

\* C6: an update on a list (of at least 3 waypoints) whose type is not
\* straight_line fails with UnsupportedPathType and returns no segment.
C6_Unsupported ==
    (Called /\ wp.type # "straight_line" /\ last.num >= 3) =>
        last.outcome = "UnsupportedPathType"

\* C7: a straight-line update in which waypoint[previous] = waypoint[current]
\* or waypoint[current] = waypoint[next] fails with DegenerateGeometry, emits
\* no segment and does not advance the pointers.
C7_Degenerate ==
    (/\ StraightCall
     /\ last.num >= 3
     /\ last.ptr.next < last.num
     /\ \/ Column(wp, last.ptr.previous) = Column(wp, last.ptr.current)
        \/ Column(wp, last.ptr.current) = Column(wp, last.ptr.next)) =>
        /\ last.outcome = "DegenerateGeometry"
        /\ Pointers = last.ptr

\* C8: an update made when the list holds fewer than 3 waypoints, or when the
\* manager has not yet taken num_waypoints from a list, is rejected with
\* ConfigurationError and reads no waypoint at an index >= num_waypoints.
C8_TooFew ==
    (StraightCall /\ (wp.num_waypoints < 3 \/ last.num < 3)) =>
        /\ last.outcome = "ConfigurationError"
        /\ last.maxRead < last.num

\* C10: the need-new-waypoints flag is True at construction; an update turns
\* it from False to True only when the crossing test is true with
\* ptr_current >= num_waypoints - 1; and only an update that finds the
\* list-changed flag set turns it from True to False.
C10_Latched ==
    /\ flag_need_new_waypoints = TRUE
    /\ [][/\ (~flag_need_new_waypoints /\ flag_need_new_waypoints') =>
               /\ last'.op = "update"
               /\ last'.crossed
               /\ last'.ptr.current >= last'.num - 1
          /\ (flag_need_new_waypoints /\ ~flag_need_new_waypoints') =>
               /\ last'.op = "update"
               /\ wp.flag_waypoints_changed]_vars

\* the flag was down on entry and the crossing at the last waypoint raised it
C10_Witness ==
    /\ Called /\ ~last.flagIn
    /\ ~last.needIn
    /\ flag_need_new_waypoints
    /\ last.crossed
    /\ last.num >= 3
    /\ last.ptr.current = last.num - 1

====
